---------------------------- MODULE Spec2Model ----------------------------
(***************************************************************************)
(* A model of lvsr/firsttry/__init__.py: the training main loop and its    *)
(* step rule, the configuration merge, the padded batch stream, the        *)
(* attention mask of the cost path and the search (decode) mode.           *)
(*                                                                         *)
(* The Blocks / Fuel bricks, extensions and transformers the file calls    *)
(* (MainLoop, SimpleExtension, CompositeRule, Padding, the attention       *)
(* brick, ...) are not part of the file; they are modelled from the        *)
(* documented behaviour the file relies on and marked so in the map.       *)
(***************************************************************************)
EXTENDS Integers, Sequences, FiniteSets, TLC

(***************************************************************************)
(* Floating point values.  A value is finite (a fixed-point number with    *)
(* two decimal digits: v = 100 * x), an infinity (v is its sign) or NaN.   *)
(***************************************************************************)
Q == 10 * 10

Fin(v) == [k |-> "fin", v |-> v]
NaN == [k |-> "nan", v |-> 0]
PInf == [k |-> "inf", v |-> 1]
NInf == [k |-> "inf", v |-> -1]
NoValue == [k |-> "none", v |-> 0]

IsNaN(x) == x.k = "nan"
IsInf(x) == x.k = "inf"
IsFinite(x) == x.k = "fin"

Abs(n) == IF n < 0 THEN -n ELSE n
Sign(n) == IF n < 0 THEN -1 ELSE IF n > 0 THEN 1 ELSE 0

\* Fixed-point product of two integers, rounded towards zero.
FxMul(a, b) == Sign(a) * Sign(b) * ((Abs(a) * Abs(b)) \div Q)

\* Fixed-point quotient of two integers (b # 0), rounded towards zero.
FxDiv(a, b) == Sign(a) * Sign(b) * ((Abs(a) * Q) \div Abs(b))

\* IEEE product: NaN is contagious, 0 * inf is NaN.
Mul(x, y) ==
    IF IsNaN(x) \/ IsNaN(y) THEN NaN
    ELSE IF IsInf(x) \/ IsInf(y)
         THEN IF Sign(x.v) * Sign(y.v) = 0 THEN NaN
              ELSE IF Sign(x.v) * Sign(y.v) > 0 THEN PInf ELSE NInf
         ELSE Fin(FxMul(x.v, y.v))

\* IEEE quotient: x / inf is 0 for finite x, x / 0 is an infinity, 0 / 0 is NaN.
Div(x, y) ==
    IF IsNaN(x) \/ IsNaN(y) THEN NaN
    ELSE IF IsInf(x) THEN (IF IsInf(y) THEN NaN
                           ELSE IF Sign(x.v) * (IF y.v < 0 THEN -1 ELSE 1) > 0
                                THEN PInf ELSE NInf)
    ELSE IF IsInf(y) THEN Fin(0)
    ELSE IF y.v = 0 THEN (IF x.v = 0 THEN NaN ELSE IF x.v > 0 THEN PInf ELSE NInf)
    ELSE Fin(FxDiv(x.v, y.v))

\* IEEE difference: inf - inf of the same sign is NaN.
Sub(x, y) ==
    IF IsNaN(x) \/ IsNaN(y) THEN NaN
    ELSE IF IsInf(x) THEN (IF IsInf(y) /\ y.v = x.v THEN NaN ELSE x)
    ELSE IF IsInf(y) THEN (IF y.v > 0 THEN NInf ELSE PInf)
    ELSE Fin(x.v - y.v)

\* IEEE sum of two non-negative values (squares).
AddNonNeg(x, y) ==
    IF IsNaN(x) \/ IsNaN(y) THEN NaN
    ELSE IF IsInf(x) \/ IsInf(y) THEN PInf
    ELSE Fin(x.v + y.v)

\* IEEE comparison: every comparison with NaN is false.
Lt(x, y) ==
    IF IsNaN(x) \/ IsNaN(y) THEN FALSE
    ELSE IF IsInf(x) THEN (x.v < 0 /\ ~(IsInf(y) /\ y.v < 0))
    ELSE IF IsInf(y) THEN y.v > 0
    ELSE x.v < y.v

\* Largest r in lo..hi with r * r <= n (lo * lo <= n).
RECURSIVE ISqrtIn(_, _, _)
ISqrtIn(n, lo, hi) ==
    IF lo >= hi THEN lo
    ELSE LET mid == (lo + hi + 1) \div 2
         IN  IF mid * mid <= n THEN ISqrtIn(n, mid, hi) ELSE ISqrtIn(n, lo, mid - 1)

ISqrt(n) == ISqrtIn(n, 0, 46340)

\* Square root of a non-negative value, in fixed point.
Sqrt(x) ==
    IF IsNaN(x) THEN NaN
    ELSE IF IsInf(x) THEN PInf
    ELSE Fin(ISqrt(x.v * Q))


(***************************************************************************)
(* Bounds of the model.                                                    *)
(***************************************************************************)
NumParams == 2
MaxNumBatches == 3
MaxBatchesPerEpoch == 2
MaxEpochs == 2

Params == 1..NumParams

\* The gradients a batch can produce for one parameter.
GradValues == {NaN, PInf, Fin(3 * Q), Fin(-200 * Q)}

\* The parameter values after recognizer.initialize().
InitialParams == [p \in Params |-> Fin(p * Q)]

VARIABLES
    mode,               \* the mode main() runs in
    pc,                 \* the position of the running mode
    main_loop,          \* MainLoop: params, algorithm, status, log, checkpoint, dump
    epoch_iterator,     \* batches the current epoch iterator still yields
    gradients,          \* algorithm.gradients of the last batch
    replaced,           \* parameters whose step RemoveNotFinite replaced in the last batch
    rules_applied,      \* the step rules the last batch applied, in order
    num_batches,        \* main()'s num_batches argument (0: None)
    batches_per_epoch,  \* batches of one epoch of the training stream
    config,             \* main()'s config
    changes,            \* the patch read from config_path (None: no config_path)
    dataset,            \* the examples of the dataset: (recording, label) pairs
    batch_size,         \* build_stream's batch_size
    sort_k_batches,     \* build_stream's sort_k_batches (0: None)
    stream,             \* the examples the stream has not batched yet
    batch_examples,     \* the examples of the batch emitted last
    batch,              \* the batch emitted last: four arrays
    dec_step,           \* decoder steps of the cost of the batch done so far
    attended_mask,      \* the mask the attention of the last decoder step was given
    weights,            \* the attention weights of the last decoder step: <<num, den>>
    recognizer,         \* the PhonemeRecognizer object: its instance attributes
    result,             \* how the last call of a method of the recognizer ended
    number,             \* search mode: the utterances compared so far
    recognizer_brick    \* the PhonemeRecognizerBrick main() has constructed

trainVars == <<pc, main_loop, epoch_iterator, gradients, replaced, rules_applied,
               num_batches, batches_per_epoch>>

\* What the training mode leaves alone.
configVars == <<config, changes>>
streamVars == <<dataset, batch_size, sort_k_batches, stream, batch_examples, batch>>
costVars == <<dec_step, attended_mask, weights>>
searchVars == <<recognizer, result, number>>
buildVars == <<recognizer_brick>>

\* What the training mode leaves alone.
notTrainVars == <<mode, configVars, streamVars, costVars, searchVars, buildVars>>

vars == <<mode, trainVars, configVars, streamVars, costVars, searchVars, buildVars>>

(***************************************************************************)
(* The training algorithm: GradientDescent with the composite step rule.   *)
(***************************************************************************)
\* The values of the step rules, in hundredths: StepClipping(100.0),
\* Scale(0.01), RemoveNotFinite(0.0).
StepClippingThreshold == 10000
ScaleLearningRate == 1
RemoveNotFiniteScaler == 0

step_rule_reordered ==
    << [rule |-> "RemoveNotFinite", arg |-> Fin(RemoveNotFiniteScaler)],
       [rule |-> "Scale", arg |-> Fin(ScaleLearningRate)],
       [rule |-> "StepClipping", arg |-> Fin(StepClippingThreshold)] >>

\* CompositeRule([StepClipping(100.0), Scale(0.01), RemoveNotFinite(0.0)])
step_rule ==
    << [rule |-> "StepClipping", arg |-> Fin(StepClippingThreshold)],
       [rule |-> "Scale", arg |-> Fin(ScaleLearningRate)],
       [rule |-> "RemoveNotFinite", arg |-> Fin(RemoveNotFiniteScaler)] >>

RECURSIVE SumSquares(_, _)
SumSquares(steps, n) ==
    IF n = 0 THEN Fin(0)
    ELSE AddNonNeg(SumSquares(steps, n - 1), Mul(steps[n], steps[n]))

\* The l2 norm over all parameters.
l2_norm(steps) == Sqrt(SumSquares(steps, NumParams))

\* StepClipping: rescale all steps so that their global norm is at most the threshold.
StepClipping_compute_steps(threshold, steps) ==
    LET norm == l2_norm(steps)
        multiplier == IF Lt(norm, threshold) THEN Fin(Q) ELSE Div(threshold, norm)
    IN  [p \in Params |-> Mul(steps[p], multiplier)]

\* Scale: multiply every step by the learning rate.
Scale_compute_steps(learning_rate, steps) ==
    [p \in Params |-> Mul(learning_rate, steps[p])]

\* RemoveNotFinite: a step that is not finite is replaced by the fallback value.
RemoveNotFinite_compute_steps(fallback, steps) ==
    [p \in Params |-> IF IsFinite(steps[p]) THEN steps[p] ELSE fallback]

\* CompositeRule: the rules are applied one after the other, each to the
\* output of the one before.
RECURSIVE CompositeRule_compute_steps(_, _)
CompositeRule_compute_steps(rules, acc) ==
    IF rules = <<>> THEN acc
    ELSE LET r == Head(rules)
             out == CASE r.rule = "StepClipping" ->
                            StepClipping_compute_steps(r.arg, acc.steps)
                      [] r.rule = "Scale" -> Scale_compute_steps(r.arg, acc.steps)
                      [] r.rule = "RemoveNotFinite" ->
                            RemoveNotFinite_compute_steps(r.arg, acc.steps)
         IN  CompositeRule_compute_steps(Tail(rules),
                [steps |-> out,
                 replaced |-> IF r.rule = "RemoveNotFinite"
                              THEN acc.replaced \cup {p \in Params : ~IsFinite(acc.steps[p])}
                              ELSE acc.replaced,
                 applied |-> Append(acc.applied, r.rule)])

\* GradientDescent.process_batch: the gradients go through the step rule and
\* the resulting steps are subtracted from the parameters.
GradientDescent_process_batch(params, grads) ==
    LET r == CompositeRule_compute_steps(step_rule,
                [steps |-> grads, replaced |-> {}, applied |-> <<>>])
    IN  [params |-> [p \in Params |-> Sub(params[p], r.steps[p])],
         steps |-> r.steps, replaced |-> r.replaced, applied |-> r.applied]

(***************************************************************************)
(* The extensions of the main loop, in the order main() lists them.  Each  *)
(* is an operator on the main loop record, applied when one of the         *)
(* extension's conditions names the callback and its predicate holds       *)
(* (SimpleExtension.dispatch).  Timing, Plot, ProgressBar and Printing     *)
(* only read the log and write to the screen or the plot server.           *)
(***************************************************************************)
_gradient_norm_is_none_never(log) == FALSE

\* def _gradient_norm_is_none(log): math.isnan(log.current_row.total_gradient_norm)
_gradient_norm_is_none(log) == IsNaN(log.total_gradient_norm)

\* every_batch = TrainingDataMonitoring([total_gradient_norm], after_every_batch=True)
every_batch_callbacks == {"after_batch"}

\* average = TrainingDataMonitoring(observables, prefix="average", every_n_batches=10)
average_every_n_batches == 10

\* validation = DataStreamMonitoring(..., before_first_epoch=True,
\*                                   on_resumption=True, after_every_epoch=True)
validation_callbacks == {"before_first_epoch", "on_resumption", "after_every_epoch"}

Checkpoint_callbacks_first_epoch_only == {"before_first_epoch"}

\* Checkpoint(save_path, before_first_epoch=True, after_every_epoch=True, ...)
Checkpoint_callbacks == {"before_first_epoch", "after_every_epoch"}

\* Dump(..., after_every_epoch=True)
Dump_callbacks == {"after_every_epoch"}

\* Checkpoint and Dump also save when training ends, unless told otherwise.
saveload_default_callbacks == {"after_training"}

\* The record names a callback of the main loop answers to: before_epoch is
\* before_first_epoch while no epoch is done.
CallbackNames(ml, callback) ==
    CASE callback = "before_epoch" ->
             IF ml.status.epochs_done = 0 THEN {"before_first_epoch"} ELSE {}
      [] callback = "after_epoch" -> {"after_every_epoch"}
      [] OTHER -> {callback}

Fires(callbacks, ml, callback) == CallbackNames(ml, callback) \cap callbacks # {}

\* TrainingDataMonitoring.do: the aggregated values of the monitored
\* variables become records of the current row of the log.
every_batch_do(ml, grads) ==
    [ml EXCEPT !.log.total_gradient_norm = l2_norm(grads)]

average_do(ml) ==
    IF ml.status.iterations_done % average_every_n_batches = 0
    THEN [ml EXCEPT !.log.average_rows = @ + 1]
    ELSE ml

DataStreamMonitoring_do_training(ml) ==
    [ml EXCEPT !.log.valid_rows = @ + 1,
               !.params = [p \in Params |-> Sub(@[p], Fin(1))]]

\* DataStreamMonitoring.do: the evaluator computes the monitored variables
\* over the validation stream and adds them to the log.
DataStreamMonitoring_do(ml) ==
    [ml EXCEPT !.log.valid_rows = @ + 1]

FinishAfter_conditions_nan_only(ml, n) == _gradient_norm_is_none(ml.log)

\* FinishAfter(after_n_batches=num_batches)
\*     .add_condition("after_batch", _gradient_norm_is_none)
FinishAfter_conditions(ml, n) ==
    \/ (n # 0 /\ ml.status.iterations_done = n)
    \/ _gradient_norm_is_none(ml.log)

\* FinishAfter.do
FinishAfter_do(ml) == [ml EXCEPT !.log.training_finish_requested = TRUE]

\* Checkpoint.do: the main loop, with the parameter values, is pickled.
Checkpoint_do(ml) == [ml EXCEPT !.checkpoint = [written |-> TRUE, params |-> ml.params]]

\* Dump.do: the parameter values and the log are dumped.
Dump_do(ml) == [ml EXCEPT !.dump = [written |-> TRUE, params |-> ml.params]]

\* MainLoop._run_extensions for the callbacks that do not follow a batch.
run_extensions(ml, callback) ==
    LET m1 == IF Fires(validation_callbacks, ml, callback)
              THEN DataStreamMonitoring_do(ml) ELSE ml
        m2 == IF Fires(Checkpoint_callbacks \cup saveload_default_callbacks, m1, callback)
              THEN Checkpoint_do(m1) ELSE m1
        m3 == IF Fires(Dump_callbacks \cup saveload_default_callbacks, m2, callback)
              THEN Dump_do(m2) ELSE m2
    IN  m3

\* MainLoop._run_extensions("after_batch")
run_extensions_after_batch(ml, grads, n) ==
    LET m1 == IF Fires(every_batch_callbacks, ml, "after_batch")
              THEN every_batch_do(ml, grads) ELSE ml
        m2 == average_do(m1)
        m3 == IF FinishAfter_conditions(m2, n) THEN FinishAfter_do(m2) ELSE m2
    IN  run_extensions(m3, "after_batch")

(***************************************************************************)
(* main(mode="train"): MainLoop.run().                                     *)
(***************************************************************************)
NoCheckpoint == [written |-> FALSE, params |-> InitialParams]

EmptyRow(log) ==
    [log EXCEPT !.total_gradient_norm = NoValue, !.training_finish_requested = FALSE]

\* The main loop as main() builds it: initialized parameters, an empty log.
NewMainLoop ==
    [params |-> InitialParams,
     algorithm |-> [initialized |-> FALSE, updates |-> {}],
     status |-> [iterations_done |-> 0, epochs_done |-> 0,
                 epoch_started |-> FALSE, training_started |-> FALSE],
     log |-> [total_gradient_norm |-> NoValue, training_finish_requested |-> FALSE,
              training_finished |-> FALSE, valid_rows |-> 0, average_rows |-> 0],
     checkpoint |-> NoCheckpoint,
     dump |-> NoCheckpoint]

\* MainLoop.run, first part: the before_training callbacks (the training data
\* monitors add their accumulation updates to the algorithm) and
\* algorithm.initialize().
BeforeTraining ==
    /\ mode = "train" /\ pc = "start"
    /\ main_loop' = [main_loop EXCEPT
                        !.algorithm = [initialized |-> TRUE,
                                       updates |-> @.updates \cup {"accumulation"}],
                        !.status.training_started = TRUE]
    /\ pc' = "epoch-boundary"
    /\ UNCHANGED <<epoch_iterator, gradients, replaced, rules_applied,
                   num_batches, batches_per_epoch>>
    /\ UNCHANGED notTrainVars

\* MainLoop._run_epoch, first part: a new epoch iterator and the before_epoch
\* callbacks.
BeforeEpoch ==
    /\ mode = "train" /\ pc = "epoch-boundary"
    /\ main_loop.status.epochs_done < MaxEpochs
    /\ epoch_iterator' = batches_per_epoch
    /\ main_loop' = run_extensions([main_loop EXCEPT !.status.epoch_started = TRUE],
                                   "before_epoch")
    /\ pc' = "batch-step"
    /\ UNCHANGED <<gradients, replaced, rules_applied, num_batches, batches_per_epoch>>
    /\ UNCHANGED notTrainVars

\* MainLoop._run_iteration, first part: the next batch of the epoch is
\* processed by the algorithm; the log moves to the row of the new iteration.
ProcessBatch ==
    /\ mode = "train" /\ pc = "batch-step"
    /\ epoch_iterator > 0
    /\ \E grads \in [Params -> GradValues] :
          LET r == GradientDescent_process_batch(main_loop.params, grads)
          IN  /\ gradients' = grads
              /\ replaced' = r.replaced
              /\ rules_applied' = r.applied
              /\ main_loop' = [main_loop EXCEPT
                                  !.params = r.params,
                                  !.status.iterations_done = @ + 1,
                                  !.log = EmptyRow(@)]
    /\ epoch_iterator' = epoch_iterator - 1
    /\ pc' = "after-batch"
    /\ UNCHANGED <<num_batches, batches_per_epoch>>
    /\ UNCHANGED notTrainVars

\* MainLoop._run_iteration, second part: the after_batch callbacks, then
\* _check_finish_training: a requested finish ends training, and the
\* after_training callbacks run.
AfterBatch ==
    /\ mode = "train" /\ pc = "after-batch"
    /\ LET ml == run_extensions_after_batch(main_loop, gradients, num_batches)
       IN  IF ml.log.training_finish_requested
           THEN /\ main_loop' = run_extensions(
                                   [ml EXCEPT !.log.training_finished = TRUE],
                                   "after_training")
                /\ pc' = "finished"
           ELSE /\ main_loop' = ml
                /\ pc' = "batch-step"
    /\ UNCHANGED <<epoch_iterator, gradients, replaced, rules_applied,
                   num_batches, batches_per_epoch>>
    /\ UNCHANGED notTrainVars

\* MainLoop._run_epoch, second part: the epoch iterator is exhausted; the
\* after_epoch callbacks run, then _check_finish_training.
AfterEpoch ==
    /\ mode = "train" /\ pc = "batch-step"
    /\ epoch_iterator = 0
    /\ LET ml == run_extensions(
                    [main_loop EXCEPT !.status.epoch_started = FALSE,
                                      !.status.epochs_done = @ + 1],
                    "after_epoch")
       IN  IF ml.log.training_finish_requested
           THEN /\ main_loop' = run_extensions(
                                   [ml EXCEPT !.log.training_finished = TRUE],
                                   "after_training")
                /\ pc' = "finished"
           ELSE /\ main_loop' = ml
                /\ pc' = "epoch-boundary"
    /\ UNCHANGED <<epoch_iterator, gradients, replaced, rules_applied,
                   num_batches, batches_per_epoch>>
    /\ UNCHANGED notTrainVars

(***************************************************************************)
(* Properties of the training loop.                                        *)
(***************************************************************************)
IsBatchStep == pc = "batch-step" /\ pc' = "after-batch"

\* C1: whenever the total gradient norm recorded for a batch is NaN, the
\* loop is finished right after that batch's callbacks; once finished, no
\* batch is processed and no parameter changes.
C1_NaNNormFinishesTraining ==
    [][ /\ (pc = "after-batch" /\ IsNaN(main_loop'.log.total_gradient_norm))
              => pc' = "finished"
        /\ pc = "finished"
              => /\ pc' = "finished"
                 /\ main_loop'.params = main_loop.params
                 /\ main_loop'.status.iterations_done = main_loop.status.iterations_done
      ]_vars

\* A run that finished on a NaN norm before the batch limit was reached.
C1_Witness ==
    /\ pc = "finished"
    /\ IsNaN(main_loop.log.total_gradient_norm)
    /\ (num_batches = 0 \/ main_loop.status.iterations_done < num_batches)

CheckpointIsCurrent ==
    main_loop.checkpoint.written /\ main_loop.checkpoint.params = main_loop.params

\* C2: after the callbacks of every epoch boundary, and in every finished
\* run, the checkpoint holds the current parameter values.
C2_CheckpointHoldsFinalParams ==
    /\ (pc = "epoch-boundary" /\ main_loop.status.epochs_done > 0) => CheckpointIsCurrent
    /\ pc = "finished" => CheckpointIsCurrent

\* A run the batch limit finished in the middle of its second epoch, after
\* the parameters had moved.
C2_Witness ==
    /\ pc = "finished"
    /\ epoch_iterator > 0
    /\ main_loop.status.epochs_done > 0
    /\ main_loop.status.iterations_done = num_batches
    /\ main_loop.params # InitialParams
    /\ CheckpointIsCurrent

\* The step of the claimed pipeline: clip the global norm to 100.0, scale by
\* 0.01, replace what is not finite by 0.0.
C3_ExpectedSteps(g) ==
    LET norm == l2_norm(g)
        clipped == [p \in Params |->
                       IF Lt(norm, Fin(100 * Q)) THEN g[p]
                       ELSE Mul(g[p], Div(Fin(100 * Q), norm))]
        scaled == [p \in Params |-> Mul(Fin(Q \div 100), clipped[p])]
    IN  [p \in Params |-> IF IsFinite(scaled[p]) THEN scaled[p] ELSE Fin(0)]

\* C3: every batch step applies StepClipping, Scale and RemoveNotFinite, in
\* this order and each once, and the parameters move by the result.
C3_StepRuleOrder ==
    [][ IsBatchStep =>
          /\ rules_applied' = <<"StepClipping", "Scale", "RemoveNotFinite">>
          /\ \A p \in Params :
                main_loop'.params[p] =
                    Sub(main_loop.params[p], C3_ExpectedSteps(gradients')[p])
      ]_vars

\* A batch step whose finite gradient had a norm above the ceiling and moved
\* a parameter.
C3_Witness ==
    /\ pc = "after-batch"
    /\ \A p \in Params : IsFinite(gradients[p])
    /\ Lt(Fin(100 * Q), l2_norm(gradients))
    /\ rules_applied = <<"StepClipping", "Scale", "RemoveNotFinite">>
    /\ main_loop.params # InitialParams

\* C4: in every batch step, exactly the parameters whose own gradient is not
\* finite get the fallback step (and keep their value); a parameter whose own
\* gradient is finite gets its clipped and scaled step, not the fallback.
C4_ReplacementIsPerParameter ==
    [][ IsBatchStep =>
          \A p \in Params :
             IF IsFinite(gradients'[p])
             THEN p \notin replaced'
             ELSE p \in replaced' /\ main_loop'.params[p] = main_loop.params[p]
      ]_vars

\* C10: a validation pass (it adds validation records to the log) and a
\* monitoring step (the after_batch callbacks) leave the parameter values
\* and the algorithm as they were; the log is what changes.
C10_MonitoringLeavesParams ==
    [][ (main_loop'.log.valid_rows # main_loop.log.valid_rows \/ pc = "after-batch")
           => /\ main_loop'.params = main_loop.params
              /\ main_loop'.algorithm = main_loop.algorithm
              /\ main_loop'.log # main_loop.log
      ]_vars

\* The validation pass after an epoch that moved the parameters.
C10_Witness ==
    /\ pc = "epoch-boundary"
    /\ main_loop.log.valid_rows >= 2
    /\ main_loop.params # InitialParams
    /\ IsFinite(main_loop.log.total_gradient_norm)

\* The limit is reachable within the epochs the model runs.
LimitWithinEpochs ==
    num_batches >= 1 /\ num_batches <= batches_per_epoch * MaxEpochs

\* C12: with a batch limit num_batches, no batch step is made once
\* num_batches steps are done; a run that finishes after a batch whose norm
\* is not NaN has made exactly num_batches steps; a finished run stays
\* finished; and the run does reach "finished".
C12_ExactlyNumBatchesSteps ==
    /\ [][ (mode = "train" /\ num_batches >= 1) =>
              /\ IsBatchStep => main_loop.status.iterations_done < num_batches
              /\ (pc # "finished" /\ pc' = "finished"
                     /\ ~IsNaN(main_loop'.log.total_gradient_norm))
                    => main_loop'.status.iterations_done = num_batches
              /\ pc = "finished" => pc' = "finished"
         ]_vars
    /\ (mode = "train" /\ LimitWithinEpochs) ~> (pc = "finished")

\* A run of three batches without a NaN norm that crossed an epoch boundary
\* and finished at the limit.
C12_Witness ==
    /\ pc = "finished"
    /\ num_batches = MaxNumBatches
    /\ main_loop.status.iterations_done = num_batches
    /\ main_loop.status.epochs_done >= 1
    /\ ~IsNaN(main_loop.log.total_gradient_norm)

(***************************************************************************)
(* The experiment configuration: default_config() and the merge of the     *)
(* patch read from config_path (main.rec_update).  A Python value is a     *)
(* tagged record: t is its type; n, s, l and m hold a number, a string,    *)
(* the elements of a list or tuple, and the items of a mapping.            *)
(***************************************************************************)
MaxPatchKeys == 2

EmptyMap == [k \in {} |-> 0]
PyValue(t, n, s, l, m) == [t |-> t, n |-> n, s |-> s, l |-> l, m |-> m]
PyInt(n) == PyValue("int", n, "", <<>>, EmptyMap)
PyStr(s) == PyValue("str", 0, s, <<>>, EmptyMap)
PyBool(b) == PyValue("bool", IF b THEN 1 ELSE 0, "", <<>>, EmptyMap)
PyList(l) == PyValue("list", 0, "", l, EmptyMap)
PyTuple(l) == PyValue("tuple", 0, "", l, EmptyMap)
PyDict(f) == PyValue("dict", 0, "", <<>>, f)
Config(f) == PyValue("Config", 0, "", <<>>, f)
PyNone == PyValue("None", 0, "", <<>>, EmptyMap)

IsMapping(v) == v.t \in {"dict", "Config"}

\* def default_config()
default_config ==
    Config([net |-> Config([dim_dec |-> PyInt(100), dim_bidir |-> PyInt(100),
                            dims_bottom |-> PyList(<<PyInt(100)>>),
                            enc_transition |-> PyStr("SimpleRecurrent"),
                            dec_transition |-> PyStr("SimpleRecurrent"),
                            attention_type |-> PyStr("content"),
                            use_states_for_readout |-> PyBool(FALSE)]),
            initialization |-> PyList(<<
                PyTuple(<<PyStr("/recognizer"), PyStr("weights_init"), PyStr("IsotropicGaussian(0.1)")>>),
                PyTuple(<<PyStr("/recognizer"), PyStr("biases_init"), PyStr("Constant(0.0)")>>),
                PyTuple(<<PyStr("/recognizer"), PyStr("rec_weights_init"), PyStr("Orthogonal()")>>)>>),
            data |-> Config([batch_size |-> PyInt(10)])])

\* dict.get(key)
Get(conf, key) == IF key \in DOMAIN conf.m THEN conf.m[key] ELSE PyNone

\* conf[key] = value
SetItem(conf, key, value) ==
    [conf EXCEPT !.m = [k \in DOMAIN conf.m \cup {key} |->
                           IF k = key THEN value ELSE conf.m[k]]]

\* The keys of a dict as the list its iteration yields.
RECURSIVE KeyList(_)
KeyList(keys) ==
    IF keys = {} THEN <<>>
    ELSE LET k == CHOOSE k \in keys : TRUE
         IN  <<PyStr(k)>> \o KeyList(keys \ {k})

\* list.extend(value): [ok, list]; a value that is not iterable is a TypeError.
Extend(list, value) ==
    CASE value.t \in {"list", "tuple"} -> [ok |-> TRUE, conf |-> PyList(list.l \o value.l)]
      [] IsMapping(value) -> [ok |-> TRUE, conf |-> PyList(list.l \o KeyList(DOMAIN value.m))]
      [] OTHER -> [ok |-> FALSE, conf |-> list]

RECURSIVE rec_update_known_keys(_, _)
RECURSIVE rec_update_keys_known(_, _, _)
rec_update_keys_known(conf, chg, keys) ==
    IF keys = {} THEN [ok |-> TRUE, conf |-> conf]
    ELSE LET key == CHOOSE k \in keys : TRUE
             cur == Get(conf, key)
             r == CASE cur.t = "Config" -> rec_update_known_keys(cur, chg.m[key])
                    [] cur.t = "list" -> Extend(cur, chg.m[key])
                    [] cur.t = "None" -> [ok |-> FALSE, conf |-> cur]
                    [] OTHER -> [ok |-> TRUE, conf |-> chg.m[key]]
         IN  IF r.ok
             THEN rec_update_keys_known(SetItem(conf, key, r.conf), chg, keys \ {key})
             ELSE [ok |-> FALSE, conf |-> conf]

\* A merge that rejects the keys conf does not have.
rec_update_known_keys(conf, chg) ==
    IF IsMapping(chg) THEN rec_update_keys_known(conf, chg, DOMAIN chg.m)
    ELSE IF chg.t \in {"list", "tuple"} /\ chg.l = <<>> THEN [ok |-> TRUE, conf |-> conf]
    ELSE [ok |-> FALSE, conf |-> conf]

RECURSIVE rec_update(_, _)
RECURSIVE rec_update_keys(_, _, _)
\* The body of rec_update's loop, for the keys still to visit.
rec_update_keys(conf, chg, keys) ==
    IF keys = {} THEN [ok |-> TRUE, conf |-> conf]
    ELSE LET key == CHOOSE k \in keys : TRUE
             cur == Get(conf, key)
             r == CASE cur.t = "Config" -> rec_update(cur, chg.m[key])
                    [] cur.t = "list" -> Extend(cur, chg.m[key])
                    [] OTHER -> [ok |-> TRUE, conf |-> chg.m[key]]
         IN  IF r.ok
             THEN rec_update_keys(SetItem(conf, key, r.conf), chg, keys \ {key})
             ELSE [ok |-> FALSE, conf |-> conf]

\* def rec_update(conf, chg): [ok, conf]; ok is FALSE when a TypeError is
\* raised.  Iterating a mapping yields its keys; iterating a non-empty list
\* yields elements that do not index it; a number is not iterable.
rec_update(conf, chg) ==
    IF IsMapping(chg) THEN rec_update_keys(conf, chg, DOMAIN chg.m)
    ELSE IF chg.t \in {"list", "tuple"} /\ chg.l = <<>> THEN [ok |-> TRUE, conf |-> conf]
    ELSE [ok |-> FALSE, conf |-> conf]

\* The patches of the model: dicts of at most MaxPatchKeys keys a level over
\* known and unknown keys, with numbers, lists and dicts as values.
PatchTopKeys == {"net", "data", "initialization", "seed"}
PatchSubKeys == {"dim_dec", "dims_bottom", "max_left"}
PatchLeafValues == {PyInt(5), PyList(<<PyInt(7)>>)}

DictsOver(keys, values) ==
    {PyDict(f) : f \in UNION {[K -> values] :
                   K \in {S \in SUBSET keys : Cardinality(S) <= MaxPatchKeys}}}

PatchValues == DictsOver(PatchSubKeys, PatchLeafValues) \cup PatchLeafValues

Patches == DictsOver(PatchTopKeys, PatchValues)

\* main(), lines 298-310: the default configuration, patched when a
\* config_path is given.
LoadConfig ==
    /\ mode \in {"config", "build"} /\ pc = "start"
    /\ IF changes = PyNone
       THEN config' = config /\ pc' = "configured"
       ELSE LET r == rec_update(config, changes)
            IN  /\ config' = r.conf
                /\ pc' = IF r.ok THEN "configured" ELSE "TypeError"
    /\ UNCHANGED <<mode, changes, main_loop, epoch_iterator, gradients, replaced,
                   rules_applied, num_batches, batches_per_epoch, streamVars, costVars,
                   searchVars, buildVars>>

(***************************************************************************)
(* Properties of the configuration merge.                                  *)
(***************************************************************************)
IsSection(key) == key \in DOMAIN default_config.m /\ default_config.m[key].t = "Config"

\* The patch has, at some level, a key the default configuration lacks there.
HasUnknownKey(chg) ==
    \E k \in DOMAIN chg.m :
       \/ k \notin DOMAIN default_config.m
       \/ /\ IsSection(k) /\ IsMapping(chg.m[k])
          /\ \E k2 \in DOMAIN chg.m[k].m : k2 \notin DOMAIN default_config.m[k].m

\* The configuration has only keys the default configuration has.
OnlyDefaultKeys(conf) ==
    /\ DOMAIN conf.m \subseteq DOMAIN default_config.m
    /\ \A k \in DOMAIN conf.m :
          (IsSection(k) /\ IsMapping(conf.m[k]))
             => DOMAIN conf.m[k].m \subseteq DOMAIN default_config.m[k].m

FitsList(v) == v.t # "int"
TypeMismatch(chg) ==
    \E k \in DOMAIN chg.m \cap DOMAIN default_config.m :
       \/ default_config.m[k].t = "list" /\ ~FitsList(chg.m[k])
       \/ /\ IsSection(k)
          /\ \/ ~IsMapping(chg.m[k]) /\ ~(chg.m[k].t = "list" /\ chg.m[k].l = <<>>)
             \/ /\ IsMapping(chg.m[k])
                /\ \E k2 \in DOMAIN chg.m[k].m \cap DOMAIN default_config.m[k].m :
                      default_config.m[k].m[k2].t = "list" /\ ~FitsList(chg.m[k].m[k2])

MaxExamples == 3
MaxFrames == 3
MaxBatchSize == 2
NumFeatures == 2

LabelLengths == {1, 2}
SortKBatches == {0, 2}

SeqsUpTo(S, n) == UNION {[1..k -> S] : k \in 1..n}

\* An example of the dataset: its recording (window t of example with n
\* windows is <<n, t>>) and its label.
Example(n, m) == [recording |-> [t \in 1..n |-> <<n, t>>], label |-> [j \in 1..m |-> j]]

Examples == {Example(n, m) : n \in 1..MaxFrames, m \in LabelLengths}

Array(dtype, ndim, a) == [dtype |-> dtype, ndim |-> ndim, a |-> a]

\* def _length(example)
_length(example) == Len(example.recording)

\* log_spectrogram: one feature vector per analysis window.
log_spectrogram(recording) ==
    [t \in 1..Len(recording) |->
        [f \in 1..NumFeatures |-> 10 * recording[t][1] + recording[t][2] + 100 * f]]

\* def apply_preprocessing(preprocessing, example)
apply_preprocessing(example) ==
    [recording |-> log_spectrogram(example.recording), label |-> example.label]

\* The stable sort of a list of examples by _length (SortMapping).
RECURSIVE SortMapping(_)
SortMapping(examples) ==
    IF examples = <<>> THEN <<>>
    ELSE LET i == CHOOSE i \in 1..Len(examples) :
                     \A j \in 1..Len(examples) :
                        \/ _length(examples[i]) < _length(examples[j])
                        \/ _length(examples[i]) = _length(examples[j]) /\ i <= j
         IN  <<examples[i]>> \o
             SortMapping([j \in 1..(Len(examples) - 1) |->
                             IF j < i THEN examples[j] ELSE examples[j + 1]])

Min(a, b) == IF a < b THEN a ELSE b

\* Batch(ConstantScheme(n)), the mapping and Unpack: the examples in chunks
\* of n, each chunk sorted.
RECURSIVE SortChunks(_, _)
SortChunks(examples, n) ==
    IF examples = <<>> THEN <<>>
    ELSE LET k == Min(n, Len(examples))
         IN  SortMapping(SubSeq(examples, 1, k)) \o
             SortChunks(SubSeq(examples, k + 1, Len(examples)), n)

RECURSIVE MaxLen(_)
MaxLen(seqs) ==
    IF seqs = <<>> THEN 0
    ELSE LET m == MaxLen(Tail(seqs))
         IN  IF Len(Head(seqs)) > m THEN Len(Head(seqs)) ELSE m

\* Padding, for one source: every sequence padded at its end with zeros to
\* the longest of the batch, and the mask of what is data.
Padded(seqs, zero) ==
    [b \in 1..Len(seqs) |->
        [t \in 1..MaxLen(seqs) |-> IF t <= Len(seqs[b]) THEN seqs[b][t] ELSE zero]]

PaddingMask(seqs) ==
    [b \in 1..Len(seqs) |->
        [t \in 1..MaxLen(seqs) |-> IF t <= Len(seqs[b]) THEN 1 ELSE 0]]

\* Padding: (recordings, recordings_mask, labels, labels_mask).
Padding(examples) ==
    LET recordings == [b \in 1..Len(examples) |-> examples[b].recording]
        labels == [b \in 1..Len(examples) |-> examples[b].label]
    IN  << Array("float64", 3, Padded(recordings, [f \in 1..NumFeatures |-> 0])),
           Array("float64", 2, PaddingMask(recordings)),
           Array("int64", 2, Padded(labels, 0)),
           Array("float64", 2, PaddingMask(labels)) >>

\* array.transpose(1, 0) of a matrix
transpose_1_0(a) == [i \in 1..Len(a[1]) |-> [j \in 1..Len(a) |-> a[j][i]]]

\* array.transpose(1, 0, 2) of a three-dimensional array
transpose_1_0_2(a) ==
    [i \in 1..Len(a[1]) |-> [j \in 1..Len(a) |->
        [k \in 1..Len(a[j][i]) |-> a[j][i][k]]]]

switch_first_two_axes_kept(arrays) == arrays

\* def switch_first_two_axes(batch)
switch_first_two_axes(arrays) ==
    [i \in 1..Len(arrays) |->
        IF arrays[i].ndim = 2
        THEN [arrays[i] EXCEPT !.a = transpose_1_0(@)]
        ELSE [arrays[i] EXCEPT !.a = transpose_1_0_2(@)]]

\* ForceFloatX: the floating point arrays become floatX arrays.
ForceFloatX(arrays) ==
    [i \in 1..Len(arrays) |->
        IF arrays[i].dtype = "float64" THEN [arrays[i] EXCEPT !.dtype = "floatX"]
        ELSE arrays[i]]

\* def build_stream(dataset, batch_size, sort_k_batches): the examples in
\* the order the batches take them.
build_stream(examples, size, sort_k) ==
    LET sorted == IF sort_k # 0 THEN SortChunks(examples, size * sort_k) ELSE examples
    IN  [i \in 1..Len(sorted) |-> apply_preprocessing(sorted[i])]

NoBatch == <<>>

\* The next batch of the stream's epoch iterator: batch_size examples (the
\* last batch has what is left), padded, axes switched, cast.
NextBatch ==
    /\ mode \in {"stream", "cost"} /\ stream # <<>>
    /\ LET k == Min(batch_size, Len(stream))
       IN  /\ batch_examples' = SubSeq(stream, 1, k)
           /\ batch' = ForceFloatX(switch_first_two_axes(Padding(SubSeq(stream, 1, k))))
           /\ stream' = SubSeq(stream, k + 1, Len(stream))
    /\ pc' = "batch"
    /\ dec_step' = 0 /\ attended_mask' = <<>> /\ weights' = <<>>
    /\ UNCHANGED <<mode, dataset, batch_size, sort_k_batches, configVars,
                   main_loop, epoch_iterator, gradients, replaced, rules_applied,
                   num_batches, batches_per_epoch, searchVars, buildVars>>

(***************************************************************************)
(* PhonemeRecognizerBrick.cost: the attention of one decoder step over a   *)
(* batch of the stream.  The encoder's output at a position is modelled by *)
(* a digest of the features there, the energy of a position by a function  *)
(* of that digest and of the decoder's state, and exp by a power of two;   *)
(* a weight is the pair <<numerator, denominator>>.                        *)
(***************************************************************************)
DecoderStates == {0, 1, 2}

RECURSIVE SumTo(_, _)
SumTo(f, n) == IF n = 0 THEN 0 ELSE f[n] + SumTo(f, n - 1)

RECURSIVE Pow2(_)
Pow2(e) == IF e = 0 THEN 1 ELSE 2 * Pow2(e - 1)

\* tensor.ones_like(recordings[:, :, 0])
ones_like(matrix) == [t \in 1..Len(matrix) |-> [b \in 1..Len(matrix[t]) |-> 1]]

\* self.encoder.apply(fork(bottom(recordings)), mask=recordings_mask)
encoder_apply(recordings, mask) ==
    [t \in 1..Len(recordings) |-> [b \in 1..Len(recordings[t]) |->
        SumTo(recordings[t][b], Len(recordings[t][b]))]]

\* SequenceContentAttention.compute_energies
compute_energies(attended, state) ==
    [t \in 1..Len(attended) |-> [b \in 1..Len(attended[t]) |->
        (attended[t][b] + state) % 3]]

\* SequenceContentAttention.compute_weights: exp(energies) times the mask,
\* divided by its sum over time.
compute_weights(energies, mask) ==
    LET unnormalized ==
            [t \in 1..Len(energies) |-> [b \in 1..Len(energies[t]) |->
                Pow2(energies[t][b]) * mask[t][b]]]
        total(b) == SumTo([t \in 1..Len(energies) |-> unnormalized[t][b]], Len(energies))
    IN  [t \in 1..Len(energies) |-> [b \in 1..Len(energies[t]) |->
            <<unnormalized[t][b], total(b)>>]]

cost_attended_mask_ones(recordings, recordings_mask) == ones_like(recordings_mask)

\* PhonemeRecognizerBrick.cost: attended_mask=recordings_mask
cost_attended_mask(recordings, recordings_mask) == recordings_mask

\* One step of generator.cost over the labels of the batch: the attention
\* takes its glimpse of the encoded recordings under the mask cost() gave.
CostStep ==
    /\ mode = "cost" /\ pc \in {"batch", "cost"}
    /\ dec_step < Len(batch[3].a)
    /\ \E state \in DecoderStates :
          LET recordings == batch[1].a
              recordings_mask == batch[2].a
              attended == encoder_apply(recordings, recordings_mask)
              mask == cost_attended_mask(recordings, recordings_mask)
          IN  /\ attended_mask' = mask
              /\ weights' = compute_weights(compute_energies(attended, state), mask)
    /\ dec_step' = dec_step + 1
    /\ pc' = "cost"
    /\ UNCHANGED <<mode, main_loop, epoch_iterator, gradients, replaced, rules_applied,
                   num_batches, batches_per_epoch, configVars, streamVars,
                   searchVars, buildVars>>

(***************************************************************************)
(* PhonemeRecognizer and main(mode="search").  An object is modelled by    *)
(* the names of its instance attributes, with the values of those the      *)
(* methods read; a call ends by returning or by raising.                   *)
(***************************************************************************)
SearchBeamSize == 10
BeamSizes == {1, SearchBeamSize}

NoObject == [attrs |-> {}, beam_size |-> 0, beam_search |-> "method"]

\* The methods of class PhonemeRecognizer.
PhonemeRecognizer_methods ==
    {"load_params", "get_generate_graph", "get_cost_graph", "analyze",
     "init_beam_search", "beam_search"}

\* hasattr(self, name)
HasAttr(self, name) == name \in self.attrs \cup PhonemeRecognizer_methods

NoResult == [kind |-> "none", what |-> "", frames |-> 0, steps |-> 0, longest |-> 0]
Raised(kind, what) == [NoResult EXCEPT !.kind = kind, !.what = what]
Returned(frames, steps, longest) ==
    [kind |-> "returned", what |-> "", frames |-> frames, steps |-> steps,
     longest |-> longest]

\* PhonemeRecognizer.__init__(self, brick)
PhonemeRecognizer_init ==
    [NoObject EXCEPT !.attrs =
        {"brick", "recordings", "recordings_mask", "labels", "labels_mask",
         "single_recording", "single_transcription"}]

\* BeamSearch.search(inputs, eol_symbol, max_length, ignore_first_eol): the
\* ways it can return: after at most max_length steps, no hypothesis longer
\* than the steps made.
BeamSearch_search(frames, max_length) ==
    UNION {{Returned(frames, n, l) : l \in 0..n} : n \in 0..max_length}

\* PhonemeRecognizer.init_beam_search(self, beam_size): the object after
\* the call and how the call ended.
PhonemeRecognizer_init_beam_search(self, beam_size) ==
    LET self1 == [self EXCEPT !.attrs = @ \cup {"beam_size"}, !.beam_size = beam_size]
    IN  IF ~HasAttr(self1, "generator")
        THEN [self |-> self1, result |-> Raised("AttributeError", "generator")]
        ELSE [self |-> [self1 EXCEPT !.attrs = @ \cup {"beam_search"},
                                     !.beam_search = "BeamSearch"],
              result |-> [NoResult EXCEPT !.kind = "returned"]]

\* PhonemeRecognizer.beam_search(self, recording): the ways the call can end.
PhonemeRecognizer_beam_search(self, recording) ==
    IF ~HasAttr(self, "beam_size")
    THEN {Raised("AttributeError", "beam_size")}
    ELSE IF self.beam_search # "BeamSearch"
    THEN {Raised("AttributeError", "search")}
    ELSE IF ~HasAttr(self, "recognizer")
    THEN {Raised("AttributeError", "recognizer")}
    ELSE BeamSearch_search(Len(recording), Len(recording) \div 3)

\* main(mode="search"): the recognizer is made of the brick loaded from
\* save_path.
LoadRecognizer ==
    /\ mode = "search" /\ pc = "start"
    /\ recognizer' = PhonemeRecognizer_init
    /\ pc' = "loaded"
    /\ UNCHANGED <<mode, main_loop, epoch_iterator, gradients, replaced, rules_applied,
                   num_batches, batches_per_epoch, configVars, streamVars, costVars,
                   result, number, buildVars>>

\* main(mode="search"): recognizer.init_beam_search(10), then the stream of
\* single utterances of the validation set.
InitBeamSearch ==
    /\ mode = "search" /\ pc = "loaded"
    /\ LET call == PhonemeRecognizer_init_beam_search(recognizer, SearchBeamSize)
       IN  /\ recognizer' = call.self
           /\ result' = call.result
           /\ IF call.result.kind = "returned"
              THEN /\ pc' = "iterating"
                   /\ stream' = build_stream(dataset, 0, 0)
              ELSE /\ pc' = call.result.kind
                   /\ UNCHANGED stream
    /\ UNCHANGED <<mode, main_loop, epoch_iterator, gradients, replaced, rules_applied,
                   num_batches, batches_per_epoch, configVars, dataset, batch_size,
                   sort_k_batches, batch_examples, batch, costVars, number, buildVars>>

\* main(mode="search"): the body of the loop over the utterances.  It calls
\* recognizer.beam_search() without a recording, which raises TypeError
\* whether beam_search is the method or the BeamSearch object; main() does
\* not get as far, InitBeamSearch raises before.
SearchUtterance ==
    /\ mode = "search" /\ pc = "iterating"
    /\ IF stream = <<>>
       THEN pc' = "done" /\ UNCHANGED <<result, stream>>
       ELSE /\ result' = Raised("TypeError", "beam_search")
            /\ pc' = "TypeError"
            /\ stream' = Tail(stream)
    /\ UNCHANGED <<mode, main_loop, epoch_iterator, gradients, replaced, rules_applied,
                   num_batches, batches_per_epoch, configVars, dataset, batch_size,
                   sort_k_batches, batch_examples, batch, costVars, recognizer, number, buildVars>>

\* A caller of the recognizer's methods: init_beam_search with some beam
\* size.
CallInitBeamSearch ==
    /\ mode = "beam"
    /\ \E beam_size \in BeamSizes :
          LET call == PhonemeRecognizer_init_beam_search(recognizer, beam_size)
          IN  recognizer' = call.self /\ result' = call.result
    /\ pc' = "init_beam_search"
    /\ UNCHANGED <<mode, main_loop, epoch_iterator, gradients, replaced, rules_applied,
                   num_batches, batches_per_epoch, configVars, streamVars, costVars,
                   number, buildVars>>

\* A caller of the recognizer's methods: beam_search on the recording of an
\* utterance of the stream.
CallBeamSearch ==
    /\ mode = "beam"
    /\ \E i \in 1..Len(stream) :
          result' \in PhonemeRecognizer_beam_search(recognizer, stream[i].recording)
    /\ pc' = "beam_search"
    /\ UNCHANGED <<mode, main_loop, epoch_iterator, gradients, replaced, rules_applied,
                   num_batches, batches_per_epoch, configVars, streamVars, costVars,
                   recognizer, number, buildVars>>

(***************************************************************************)
(* main(mode="train") up to main_loop.run(): the recognizer brick is       *)
(* constructed from the "net" section of the configuration, initialized,   *)
(* and the cost graph is built of it.                                      *)
(***************************************************************************)
AttentionTypes == {"content", "content_and_cumsum", "hybrid", "hybrid2"}

\* The names PhonemeRecognizerBrick.__init__ can eval to a transition.
Transitions == {"SimpleRecurrent", "GatedRecurrent", "LSTM"}

NoBrick == [attention |-> "", initialized |-> FALSE, cost_graph |-> FALSE]

\* The "net" sections of the model's configuration files.
NetPatches ==
    {PyDict([net |-> PyDict([attention_type |-> a, enc_transition |-> PyStr(e),
                             shift_predictor_dims |-> d])]) :
        a \in {PyStr(t) : t \in AttentionTypes \cup {"location", "Content", ""}}
                 \cup {PyNone, PyInt(5)},
        e \in {"SimpleRecurrent", "GatedRecurrent", "Foo"},
        d \in {PyNone, PyList(<<PyInt(100)>>)}}

choose_attention_defaulting(attention_type, shift_predictor_dims) ==
    IF attention_type = PyStr("content_and_cumsum") THEN "cont_att_cumsum"
    ELSE IF attention_type \in {PyStr("hybrid"), PyStr("hybrid2")}
    THEN (IF shift_predictor_dims.t # "list" THEN "TypeError" ELSE "hybrid_att")
    ELSE "cont_att"

\* PhonemeRecognizerBrick.__init__, "Choose attention mechanism according to
\* the configuration": the attention bound by the if/elif chain, which has
\* no else; [None] + shift_predictor_dims + [None] is a TypeError when the
\* dims are None.
choose_attention(attention_type, shift_predictor_dims) ==
    IF attention_type = PyStr("content") THEN "cont_att"
    ELSE IF attention_type = PyStr("content_and_cumsum") THEN "cont_att_cumsum"
    ELSE IF attention_type \in {PyStr("hybrid"), PyStr("hybrid2")}
    THEN (IF shift_predictor_dims.t # "list" THEN "TypeError" ELSE "hybrid_att")
    ELSE "unbound"

\* PhonemeRecognizerBrick(129, TIMIT.num_phonemes, name="recognizer", **net):
\* how the construction ends, and the brick it makes.
PhonemeRecognizerBrick_init(net) ==
    LET attention == choose_attention(Get(net, "attention_type"),
                                      Get(net, "shift_predictor_dims"))
    IN  IF \/ Get(net, "enc_transition").s \notin Transitions
           \/ Get(net, "dec_transition").s \notin Transitions
        THEN [raised |-> "NameError", brick |-> NoBrick]
        ELSE IF attention = "TypeError"
        THEN [raised |-> "TypeError", brick |-> NoBrick]
        ELSE IF attention = "unbound"
        THEN [raised |-> "UnboundLocalError", brick |-> NoBrick]
        ELSE [raised |-> "", brick |-> [NoBrick EXCEPT !.attention = attention]]

\* main(), lines 328-329: recognizer = PhonemeRecognizerBrick(...)
ConstructRecognizer ==
    /\ mode = "build" /\ pc = "configured"
    /\ LET made == PhonemeRecognizerBrick_init(config.m["net"])
       IN  /\ recognizer_brick' = made.brick
           /\ pc' = IF made.raised = "" THEN "constructed" ELSE made.raised
    /\ UNCHANGED <<mode, main_loop, epoch_iterator, gradients, replaced, rules_applied,
                   num_batches, batches_per_epoch, configVars, streamVars, costVars,
                   searchVars>>

\* main(), lines 330-334: the initialization schemes are pushed and
\* recognizer.initialize() gives the parameters their values.
InitializeRecognizer ==
    /\ mode = "build" /\ pc = "constructed"
    /\ recognizer_brick' = [recognizer_brick EXCEPT !.initialized = TRUE]
    /\ pc' = "initialized"
    /\ UNCHANGED <<mode, main_loop, epoch_iterator, gradients, replaced, rules_applied,
                   num_batches, batches_per_epoch, configVars, streamVars, costVars,
                   searchVars>>

\* main(), lines 336-341: recognizer.cost(...) builds the cost graph.
BuildCostGraph ==
    /\ mode = "build" /\ pc = "initialized"
    /\ recognizer_brick' = [recognizer_brick EXCEPT !.cost_graph = TRUE]
    /\ pc' = "cost-graph"
    /\ UNCHANGED <<mode, main_loop, epoch_iterator, gradients, replaced, rules_applied,
                   num_batches, batches_per_epoch, configVars, streamVars, costVars,
                   searchVars>>

\* main(), lines 432-455: the main loop is made and run; it is what
\* processes the batches.
RunMainLoop ==
    /\ mode = "build" /\ pc = "cost-graph"
    /\ pc' = "training"
    /\ UNCHANGED <<mode, main_loop, epoch_iterator, gradients, replaced, rules_applied,
                   num_batches, batches_per_epoch, configVars, streamVars, costVars,
                   searchVars, buildVars>>

(***************************************************************************)
(* Properties of the batches of build_stream.                              *)
(***************************************************************************)
\* The length of the longest of the sequences.
Longest(seqs) ==
    CHOOSE n \in {Len(seqs[b]) : b \in 1..Len(seqs)} :
       \A b \in 1..Len(seqs) : Len(seqs[b]) <= n

\* data and mask are time-major and hold seqs, each padded at its end with
\* zero to the longest, and the mask of the true lengths.
TimeMajorPadded(data, mask, seqs, zero) ==
    LET B == Len(seqs)
        T == Longest(seqs)
    IN  /\ Len(data) = T /\ Len(mask) = T
        /\ \A t \in 1..T :
              /\ Len(data[t]) = B /\ Len(mask[t]) = B
              /\ \A b \in 1..B :
                    /\ mask[t][b] = (IF t <= Len(seqs[b]) THEN 1 ELSE 0)
                    /\ data[t][b] = (IF t <= Len(seqs[b]) THEN seqs[b][t] ELSE zero)

\* C9: in every batch of the stream, recordings and labels are padded at
\* the end to the longest of the batch, the masks are 1 below the true
\* length and 0 from it on, and arrays and masks are indexed by time first
\* and by the example of the batch second.
C9_BatchesArePaddedAndMasked ==
    (mode = "stream" /\ pc = "batch") =>
       /\ Len(batch) = 4
       /\ TimeMajorPadded(batch[1].a, batch[2].a,
             [b \in 1..Len(batch_examples) |-> batch_examples[b].recording],
             [f \in 1..NumFeatures |-> 0])
       /\ TimeMajorPadded(batch[3].a, batch[4].a,
             [b \in 1..Len(batch_examples) |-> batch_examples[b].label], 0)

\* A batch of two examples with recordings and labels of different lengths.
C9_Witness ==
    /\ mode = "stream" /\ pc = "batch"
    /\ Len(batch_examples) = 2
    /\ Len(batch_examples[1].recording) # Len(batch_examples[2].recording)
    /\ Len(batch_examples[1].label) # Len(batch_examples[2].label)
    /\ \E t \in 1..Len(batch[2].a) : \E b \in 1..2 : batch[2].a[t][b] = 0

(***************************************************************************)
(* Properties of the attention on the cost path.                           *)
(***************************************************************************)
\* C8: at every decoder step of the cost of a batch, the attention weights
\* of each example are zero at the padded positions of its recording and
\* sum to one over the positions below its true length; the mask the
\* attention is given is the recordings mask of that batch.
C8_AttentionWeightsRespectMask ==
    (mode = "cost" /\ pc = "cost") =>
       /\ attended_mask = batch[2].a
       /\ \A b \in 1..Len(batch_examples) :
             LET n == Len(batch_examples[b].recording)
                 T == Len(weights)
             IN  /\ \A t \in 1..T : t > n => weights[t][b][1] = 0
                 /\ \A t \in 1..T : weights[t][b][2] > 0
                 /\ SumTo([t \in 1..n |-> weights[t][b][1]], n) = weights[1][b][2]

\* A decoder step over a batch in which a recording is padded.
C8_Witness ==
    /\ mode = "cost" /\ pc = "cost" /\ dec_step >= 1
    /\ \E b \in 1..Len(batch_examples) :
          /\ Len(batch_examples[b].recording) < Len(weights)
          /\ attended_mask[Len(weights)][b] = 0
          /\ \E t \in 1..Len(weights) : weights[t][b][1] > 0

(***************************************************************************)
(* Properties of the search mode and of beam search.                       *)
(***************************************************************************)
SearchEnded == pc \in {"done", "AssertionError", "AttributeError", "TypeError"}

\* C6: search mode compares, for every utterance of the stream, the cost
\* beam search reports with the teacher-forced cost of the hypothesis; it
\* ends with every utterance compared, or at the utterance whose comparison
\* raised.
C6_EveryUtteranceIsCompared ==
    (mode = "search" /\ SearchEnded) =>
       \/ pc = "AssertionError"
       \/ pc = "done" /\ number = Len(dataset)

\* C7: a call of beam_search on a recording returns hypotheses, after at
\* most (frames divided by 3) steps, none of them longer than that.
C7_BeamSearchStopsWithinFrameBound ==
    (mode = "beam" /\ pc = "beam_search") =>
       /\ result.kind = "returned"
       /\ result.steps <= result.frames \div 3
       /\ result.longest <= result.frames \div 3

(***************************************************************************)
(* Properties of the construction of the recognizer.                       *)
(***************************************************************************)
InvalidAttentionType ==
    Get(config.m["net"], "attention_type") \notin {PyStr(t) : t \in AttentionTypes}

\* C11: with an attention_type that is none of content, content_and_cumsum,
\* hybrid and hybrid2, main() ends in an error at the construction of the
\* recognizer: no brick is made, no parameter is initialized, no cost graph
\* is built and the main loop is not run.
C11_InvalidAttentionTypeFailsFast ==
    (mode = "build" /\ pc \notin {"start", "configured"} /\ InvalidAttentionType) =>
       /\ pc \in {"NameError", "UnboundLocalError"}
       /\ recognizer_brick = NoBrick

\* The construction with attention_type "location" and valid transitions
\* has raised.
C11_Witness ==
    /\ mode = "build" /\ pc = "UnboundLocalError"
    /\ Get(config.m["net"], "attention_type") = PyStr("location")
    /\ Get(config.m["net"], "enc_transition").s \in Transitions
    /\ recognizer_brick = NoBrick

(***************************************************************************)
(* Specifications: one per mode of main().                                 *)
(***************************************************************************)
TrainIdle ==
    /\ main_loop = NewMainLoop
    /\ epoch_iterator = 0
    /\ gradients = [p \in Params |-> Fin(0)]
    /\ replaced = {}
    /\ rules_applied = <<>>
    /\ num_batches = 0
    /\ batches_per_epoch = 0

ConfigIdle == config = default_config /\ changes = PyNone

StreamIdle ==
    /\ dataset = <<>> /\ batch_size = 0 /\ sort_k_batches = 0
    /\ stream = <<>> /\ batch_examples = <<>> /\ batch = NoBatch

CostIdle == dec_step = 0 /\ attended_mask = <<>> /\ weights = <<>>

SearchIdle == recognizer = NoObject /\ result = NoResult /\ number = 0

BuildIdle == recognizer_brick = NoBrick

\* main(mode="train", num_batches=...) with the default configuration.
TrainInit ==
    /\ mode = "train"
    /\ pc = "start"
    /\ main_loop = NewMainLoop
    /\ epoch_iterator = 0
    /\ gradients = [p \in Params |-> Fin(0)]
    /\ replaced = {}
    /\ rules_applied = <<>>
    /\ num_batches \in 0..MaxNumBatches
    /\ batches_per_epoch \in 1..MaxBatchesPerEpoch
    /\ ConfigIdle /\ StreamIdle /\ CostIdle /\ SearchIdle /\ BuildIdle

TrainNext == BeforeTraining \/ BeforeEpoch \/ ProcessBatch \/ AfterBatch \/ AfterEpoch

Spec == TrainInit /\ [][TrainNext]_vars

\* ProcessBatch can be taken: the epoch iterator has a batch left.
ProcessBatchEnabled == mode = "train" /\ pc = "batch-step" /\ epoch_iterator > 0

\* The main loop runs on: it is a sequential program, and each of its steps
\* is taken when it can be (weak fairness of every step; that of
\* ProcessBatch is written with its enabling condition).
SpecLive ==
    /\ Spec
    /\ WF_vars(BeforeTraining \/ BeforeEpoch \/ AfterBatch \/ AfterEpoch)
    /\ ([]<>(~ProcessBatchEnabled) \/ []<><<ProcessBatch>>_vars)

\* main(config_path=...) up to the merged configuration.
ConfigInit ==
    /\ mode = "config"
    /\ pc = "start"
    /\ config = default_config
    /\ changes \in Patches \cup {PyNone}
    /\ TrainIdle /\ StreamIdle /\ CostIdle /\ SearchIdle /\ BuildIdle

ConfigNext == LoadConfig

SpecConfig == ConfigInit /\ [][ConfigNext]_vars

\* build_stream(dataset, batch_size, sort_k_batches) and its epoch iterator.
StreamInit ==
    /\ mode = "stream"
    /\ pc = "start"
    /\ dataset \in SeqsUpTo(Examples, MaxExamples)
    /\ batch_size \in 1..MaxBatchSize
    /\ sort_k_batches \in SortKBatches
    /\ stream = build_stream(dataset, batch_size, sort_k_batches)
    /\ batch_examples = <<>>
    /\ batch = NoBatch
    /\ TrainIdle /\ ConfigIdle /\ CostIdle /\ SearchIdle /\ BuildIdle

StreamNext == NextBatch

SpecStream == StreamInit /\ [][StreamNext]_vars

\* The cost of the batches of a stream, as the training algorithm has it
\* computed: every batch goes through the decoder steps of its labels.
CostInit ==
    /\ mode = "cost"
    /\ pc = "start"
    /\ dataset \in SeqsUpTo(Examples, MaxExamples)
    /\ batch_size \in 1..MaxBatchSize
    /\ sort_k_batches = 0
    /\ stream = build_stream(dataset, batch_size, sort_k_batches)
    /\ batch_examples = <<>>
    /\ batch = NoBatch
    /\ TrainIdle /\ ConfigIdle /\ CostIdle /\ SearchIdle /\ BuildIdle

CostNext == NextBatch \/ CostStep

SpecCost == CostInit /\ [][CostNext]_vars

\* main(mode="search") on a validation set.
SearchInit ==
    /\ mode = "search"
    /\ pc = "start"
    /\ dataset \in SeqsUpTo(Examples, MaxExamples)
    /\ batch_size = 0 /\ sort_k_batches = 0
    /\ stream = <<>> /\ batch_examples = <<>> /\ batch = NoBatch
    /\ TrainIdle /\ ConfigIdle /\ CostIdle /\ SearchIdle /\ BuildIdle

SearchNext == LoadRecognizer \/ InitBeamSearch

SpecSearch == SearchInit /\ [][SearchNext]_vars

\* The methods of a PhonemeRecognizer called on the utterances of a stream.
BeamInit ==
    /\ mode = "beam"
    /\ pc = "new"
    /\ dataset \in SeqsUpTo(Examples, MaxExamples)
    /\ batch_size = 0 /\ sort_k_batches = 0
    /\ stream = build_stream(dataset, batch_size, sort_k_batches)
    /\ batch_examples = <<>> /\ batch = NoBatch
    /\ recognizer = PhonemeRecognizer_init /\ result = NoResult /\ number = 0
    /\ TrainIdle /\ ConfigIdle /\ CostIdle /\ BuildIdle

BeamNext == CallInitBeamSearch \/ CallBeamSearch

SpecBeam == BeamInit /\ [][BeamNext]_vars

\* main(mode="train", config_path=...) up to main_loop.run().
BuildInit ==
    /\ mode = "build"
    /\ pc = "start"
    /\ config = default_config
    /\ changes \in NetPatches \cup {PyNone}
    /\ TrainIdle /\ StreamIdle /\ CostIdle /\ SearchIdle /\ BuildIdle

BuildNext ==
    \/ LoadConfig
    \/ ConstructRecognizer
    \/ InitializeRecognizer
    \/ BuildCostGraph
    \/ RunMainLoop

SpecBuild == BuildInit /\ [][BuildNext]_vars

=============================================================================
